---- MODULE Spec2Model ----
(***************************************************************************)
(* Model of the sassy-nanny booking backend (Express + Mongoose).          *)
(*                                                                         *)
(* The repository holds several iterations of one server.  Two are         *)
(* modelled, selected by the variable `variant`:                           *)
(*   "server"   : the last iteration in src/server.js (lines 202-507),     *)
(*                whose capture endpoint saves the booking and mails;      *)
(*   "part_000" : src/unnamed/part_000, whose updateTransporter calls the  *)
(*                non-existent nodemailer.createTransporter and whose      *)
(*                capture endpoint only answers.                           *)
(*                                                                         *)
(* Node runs the handlers on one thread: a handler runs without            *)
(* interruption from one await of I/O (storage, provider, mail) to the     *)
(* next, so every action below is one such run-to-next-await segment.      *)
(* A request is a slot r \in Req; its id doubles as the _id of the         *)
(* document it saves.                                                      *)
(***************************************************************************)
EXTENDS Integers, Sequences, FiniteSets, TLC

\* ---------------------------------------------------------------- bounds
MaxReq == 2   \* number of HTTP requests served in one run

Req == 1..MaxReq

\* ------------------------------------------------------------ JS values
Absent == "undefined"            \* a field missing from a JSON body / env
Truthy(s) == s # "" /\ s # Absent

\* ------------------------------------------------------- configuration
\* let adminConfig = { paypalClientId: '', ... }   (stripePublishableKey is
\* carried but never read by the server and is left out)
EmptyConfig ==
  [paypalClientId |-> "", paypalSecret |-> "", stripeSecretKey |-> "",
   gmailUser |-> "", gmailAppPass |-> "", adminEmail |-> ""]

\* let transporter = null
NullTransport == [made |-> FALSE, user |-> "", pass |-> ""]

\* nodemailer.createTransport({service:'gmail', auth:{user, pass}})
CreateTransport(cfg) == [made |-> TRUE, user |-> cfg.gmailUser, pass |-> cfg.gmailAppPass]

\* the condition of updateTransporter
HasMailCreds(cfg) == Truthy(cfg.gmailUser) /\ Truthy(cfg.gmailAppPass)

\* part_000 calls nodemailer.createTransporter, which is undefined: a TypeError
UpdateTransporterThrows(v, cfg) == v = "part_000" /\ HasMailCreds(cfg)

\* updateTransporter(): the transporter after the call (when it does not throw)
UpdateTransporter(v, cfg, old) ==
  IF HasMailCreds(cfg) THEN CreateTransport(cfg) ELSE old

\* paypalEnvironment() without its check for missing credentials
PaypalEnvironmentUnchecked(cfg, e) ==
  [ok |-> TRUE,
   clientId |-> IF Truthy(cfg.paypalClientId) THEN cfg.paypalClientId ELSE e.PAYPAL_CLIENT_ID,
   secret |-> IF Truthy(cfg.paypalSecret) THEN cfg.paypalSecret ELSE e.PAYPAL_SECRET]

\* paypalEnvironment(): the credentials used, or none
PaypalClientId(cfg, e) == IF Truthy(cfg.paypalClientId) THEN cfg.paypalClientId ELSE e.PAYPAL_CLIENT_ID
PaypalSecret(cfg, e) == IF Truthy(cfg.paypalSecret) THEN cfg.paypalSecret ELSE e.PAYPAL_SECRET
PaypalEnvironment(cfg, e) ==
  [ok |-> Truthy(PaypalClientId(cfg, e)) /\ Truthy(PaypalSecret(cfg, e)),
   clientId |-> PaypalClientId(cfg, e), secret |-> PaypalSecret(cfg, e)]

\* the check skipped when the body carries no password
WrongPasswordIfGiven(password, e) == password # Absent /\ password # e.ADMIN_PASSWORD

\* password !== process.env.ADMIN_PASSWORD
WrongPassword(password, e) == password # e.ADMIN_PASSWORD

\* AdminConfig.findOne(): the first stored document, if any
FindOne(docs) == IF Len(docs) = 0 THEN EmptyConfig ELSE docs[1].cfg

\* -------------------------------------------------------------- bookings
\* the document keyed by a fixed _id instead of a fresh one, so that a later
\* save lands on the id of an earlier booking
NewBookingSameId(id, b) ==
  [id |-> 1, paymentMethod |-> b.paymentMethod, paymentId |-> b.paymentId,
   status |-> IF b.status = Absent THEN "Pending" ELSE b.status]

\* new Booking(body): the schema default status 'Pending'
NewBooking(id, b) ==
  [id |-> id, paymentMethod |-> b.paymentMethod, paymentId |-> b.paymentId,
   status |-> IF b.status = Absent THEN "Pending" ELSE b.status]

\* paymentId written before the spread: bookingData's own paymentId would win
CaptureBookingOwnPaymentId(id, b, orderID) ==
  [id |-> id, paymentMethod |-> b.paymentMethod,
   paymentId |-> IF b.paymentId = Absent THEN orderID ELSE b.paymentId, status |-> "Paid"]

\* the spread written last: bookingData's own status would win
CaptureBookingSpreadLast(id, b, orderID) ==
  [id |-> id, paymentMethod |-> b.paymentMethod, paymentId |-> orderID,
   status |-> IF b.status = Absent THEN "Paid" ELSE b.status]

\* new Booking({ ...bookingData, paymentId: orderID, status: 'Paid' })
CaptureBooking(id, b, orderID) ==
  [id |-> id, paymentMethod |-> b.paymentMethod, paymentId |-> orderID, status |-> "Paid"]

\* capture.result.status === 'COMPLETED'
IsCompleted(status) == status = "COMPLETED"

\* req.body.paymentMethod !== 'paypal'
NotRedirect(paymentMethod) == paymentMethod # "paypal"

\* the guard without its check of the operator address
MailReadyNoOperator(t, cfg) == t.made /\ Truthy(cfg.gmailUser)

\* the guard of sendEmails: mail goes out only when this holds
MailReady(t, cfg) == t.made /\ Truthy(cfg.gmailUser) /\ Truthy(cfg.adminEmail)

\* booking.paymentMethod.toUpperCase() in the admin mail template throws a
\* TypeError when the booking has no paymentMethod
ComposeThrows(b) == b.paymentMethod = Absent

\* ---------------------------------------------------------------- amounts
\* req.body.amount: a JSON number in major units, held in thousandths of a
\* unit (12.50 is 12500), or missing from the body.  Amounts whose third
\* decimal is 5 are left out: there the binary product amount * 100 can fall
\* on either side of the half.
Amount(m) == [given |-> TRUE, milli |-> m]
NoAmount == [given |-> FALSE, milli |-> 0]

\* Math.round(x) for x = n / 10: the nearest integer, halves towards +Infinity
Round10(n) == (n + 5) \div 10

\* Math.round(amount * 100); undefined * 100 is NaN and Math.round(NaN) is NaN
MinorUnits(a) == [finite |-> a.given, value |-> IF a.given THEN Round10(a.milli) ELSE 0]

\* amount.toFixed(2) throws a TypeError when amount is undefined
ToFixedThrows(a) == ~a.given

VARIABLES
  variant,      \* which iteration of the server runs
  env,          \* process.env: ADMIN_PASSWORD, PAYPAL_CLIENT_ID, PAYPAL_SECRET
  phase,        \* "connecting" | "listening" | "exited"
  stored,       \* the adminconfig collection, in insertion order
  adminConfig,  \* the in-memory config cache
  transporter,  \* the mail transport
  bookings,     \* the bookings collection
  blogs,        \* the blogs collection (ids)
  kind,         \* kind[r]: which endpoint request r called ("idle": not yet sent)
  pc,           \* pc[r]: the await the handler is suspended at, "done" or "hung"
  body,         \* body[r]: req.body
  loc,          \* loc[r]: the handler's locals that live across awaits
  res,          \* res[r]: the HTTP status answered (0: no response)
  log,          \* log[r]: what request r did, in order
  mails,        \* every transporter.sendMail call made
  calls         \* every payment-provider network call made

vars == <<variant, env, phase, stored, adminConfig, transporter, bookings, blogs,
          kind, pc, body, loc, res, log, mails, calls>>

store == <<stored, bookings, blogs>>
cache == <<adminConfig, transporter>>
fixed == <<variant, env, phase>>

NoBody ==
  [password |-> Absent, paymentMethod |-> Absent, paymentId |-> Absent, status |-> Absent,
   orderID |-> Absent, hasData |-> FALSE, cfg |-> EmptyConfig, id |-> 0, amount |-> NoAmount]

NoLoc ==
  [from |-> "", to |-> "", result |-> "", seenConfig |-> EmptyConfig,
   seenTransport |-> NullTransport, minor |-> MinorUnits(Amount(0))]

\* ------------------------------------------------------------ bookkeeping
Arrive(r, k, b) ==
  /\ phase = "listening"
  /\ kind[r] = "idle"
  /\ \A q \in Req : q < r => kind[q] # "idle"
  /\ kind' = [kind EXCEPT ![r] = k]
  /\ body' = [body EXCEPT ![r] = b]

At(r, k, p) == kind[r] = k /\ pc[r] = p

\* res.status(s).json(...): the handler ends with a response
Respond(r, s, ev) ==
  /\ pc' = [pc EXCEPT ![r] = "done"]
  /\ res' = [res EXCEPT ![r] = s]
  /\ log' = [log EXCEPT ![r] = @ \o ev \o <<"respond">>]

\* an exception leaves an async handler, which has no try/catch of its own:
\* what becomes of the request is up to the installed Express.  Express 4
\* ignores the rejected promise and the request is never answered; Express 5
\* passes it to its default error handler, which answers 500.
Hang(r, ev) ==
  \/ /\ pc' = [pc EXCEPT ![r] = "hung"]
     /\ res' = res
     /\ log' = [log EXCEPT ![r] = @ \o ev \o <<"unhandled">>]
  \/ /\ pc' = [pc EXCEPT ![r] = "done"]
     /\ res' = [res EXCEPT ![r] = 500]
     /\ log' = [log EXCEPT ![r] = @ \o ev \o <<"unhandled", "respond">>]

\* the handler suspends at await p
Await(r, p, ev) ==
  /\ pc' = [pc EXCEPT ![r] = p]
  /\ res' = res
  /\ log' = [log EXCEPT ![r] = @ \o ev]

\* one transporter.sendMail call
Mail(r, rcpt, from, to) ==
  [req |-> r, rcpt |-> rcpt, from |-> from, to |-> to, transport |-> transporter,
   cfg |-> adminConfig]

\* ---------------------------------------------------------------- startup
\* mongoose.connect(...).then(async () => { findOne; adminConfig = ...;
\* updateTransporter(); app.listen }).catch(() => process.exit(1))
StartupLoad ==
  /\ phase = "connecting"
  /\ IF Len(stored) = 0
       THEN /\ phase' = "listening"
            /\ UNCHANGED cache
       ELSE /\ adminConfig' = FindOne(stored)
            /\ IF UpdateTransporterThrows(variant, FindOne(stored))
                 THEN phase' = "exited" /\ UNCHANGED transporter
                 ELSE /\ phase' = "listening"
                      /\ transporter' = UpdateTransporter(variant, FindOne(stored), transporter)
  /\ UNCHANGED <<variant, env, store, kind, pc, body, loc, res, log, mails, calls>>

\* ------------------------------------------------------------- sendEmails
\* sendEmails with both sendMail calls started but not awaited: it returns,
\* and the caller answers, while the sends are still under way
CallSendEmailsNoAwait(r, b, ev) ==
  /\ loc' = [loc EXCEPT ![r].from = adminConfig.gmailUser,
                         ![r].to = adminConfig.adminEmail,
                         ![r].seenConfig = adminConfig,
                         ![r].seenTransport = transporter]
  /\ IF ~MailReady(transporter, adminConfig)
       THEN /\ Respond(r, 200, ev \o <<"sendEmails", "skip">>)
            /\ UNCHANGED mails
       ELSE IF ComposeThrows(b)
         THEN /\ IF kind[r] = "capture"
                   THEN Respond(r, 500, ev \o <<"sendEmails", "throw">>)
                   ELSE Hang(r, ev \o <<"sendEmails", "throw">>)
              /\ UNCHANGED mails
         ELSE /\ Respond(r, 200, ev \o <<"sendEmails", "customer", "admin">>)
              /\ mails' = mails \cup
                   {Mail(r, "customer", adminConfig.gmailUser, "customer"),
                    Mail(r, "admin", adminConfig.gmailUser, adminConfig.adminEmail)}

\* sendEmails(booking) from its call to its first await (or its return/throw).
\* Both callers answer res.json after it returns; a throw is caught only by
\* the capture handler's try/catch.
CallSendEmails(r, b, ev) ==
  /\ loc' = [loc EXCEPT ![r].from = adminConfig.gmailUser,
                         ![r].to = adminConfig.adminEmail,
                         ![r].seenConfig = adminConfig,
                         ![r].seenTransport = transporter]
  /\ IF ~MailReady(transporter, adminConfig)
       THEN /\ Respond(r, 200, ev \o <<"sendEmails", "skip">>)
            /\ UNCHANGED mails
       ELSE IF ComposeThrows(b)
         THEN /\ IF kind[r] = "capture"
                   THEN Respond(r, 500, ev \o <<"sendEmails", "throw">>)
                   ELSE Hang(r, ev \o <<"sendEmails", "throw">>)
              /\ UNCHANGED mails
         ELSE /\ Await(r, "mailCustomer", ev \o <<"sendEmails", "customer">>)
              /\ mails' = mails \cup {Mail(r, "customer", adminConfig.gmailUser, "customer")}

\* await transporter.sendMail(customerMail) settles; its failure is caught and
\* logged, and transporter.sendMail(adminMail) is called on the transporter
\* that is current now
CustomerMailDone(r, ok) ==
  /\ pc[r] = "mailCustomer"
  /\ Await(r, "mailAdmin", <<IF ok THEN "customerSent" ELSE "customerFailed", "admin">>)
  /\ mails' = mails \cup {Mail(r, "admin", loc[r].from, loc[r].to)}
  /\ UNCHANGED <<fixed, store, cache, kind, body, loc, calls>>

\* await transporter.sendMail(adminMail) settles; sendEmails returns
AdminMailDone(r, ok) ==
  /\ pc[r] = "mailAdmin"
  /\ Respond(r, 200, <<IF ok THEN "adminSent" ELSE "adminFailed">>)
  /\ UNCHANGED <<fixed, store, cache, kind, body, loc, mails, calls>>

\* ------------------------------------------------------ POST /api/bookings
PostBooking(r, b) ==
  /\ Arrive(r, "booking", b)
  /\ Await(r, "save", <<>>)
  /\ UNCHANGED <<fixed, store, cache, loc, mails, calls>>

\* await booking.save() settles
BookingSaved(r, ok) ==
  /\ At(r, "booking", "save")
  /\ IF ~ok
       THEN /\ Hang(r, <<"saveFailed">>)
            /\ UNCHANGED <<bookings, mails, loc>>
       ELSE /\ bookings' = bookings \cup {NewBooking(r, body[r])}
            /\ IF NotRedirect(body[r].paymentMethod)
                 THEN CallSendEmails(r, NewBooking(r, body[r]), <<"save">>)
                 ELSE /\ Respond(r, 200, <<"save">>)
                      /\ UNCHANGED <<mails, loc>>
  /\ UNCHANGED <<fixed, stored, blogs, cache, kind, body, calls>>

\* ------------------------------------------- POST /api/payment/paypal/capture
\* one call to a payment provider
Call(r, provider, key, secret) ==
  [req |-> r, provider |-> provider, key |-> key, secret |-> secret,
   cfg |-> adminConfig, nStored |-> Len(stored)]

PaypalCall(r) ==
  Call(r, "paypal", PaypalEnvironment(adminConfig, env).clientId,
       PaypalEnvironment(adminConfig, env).secret)

PostCapture(r, b) ==
  /\ Arrive(r, "capture", b)
  /\ IF ~Truthy(b.orderID)
       THEN Respond(r, 400, <<"noOrderID">>) /\ UNCHANGED calls
       ELSE IF ~PaypalEnvironment(adminConfig, env).ok
         THEN Respond(r, 400, <<"unconfigured">>) /\ UNCHANGED calls
         ELSE /\ Await(r, "capture", <<"call">>)
              /\ calls' = calls \cup {PaypalCall(r)}
  /\ UNCHANGED <<fixed, store, cache, loc, mails>>

\* the booking saved before the status is looked at
CaptureBranchSaveFirst(v, status, hasData) ==
  IF v = "server" /\ hasData THEN "save"
  ELSE IF IsCompleted(status) THEN "ok" ELSE "incomplete"

\* the capture handler once the provider reported `status`: which of
\* "save" (persist the booking), "ok" (answer success), "incomplete" (400)
CaptureBranch(v, status, hasData) ==
  IF IsCompleted(status)
    THEN IF v = "server" /\ hasData THEN "save" ELSE "ok"
    ELSE "incomplete"

\* await client.execute(request) settles: outcome is "ERROR" when it rejects,
\* else capture.result.status
CaptureResult(r, outcome) ==
  /\ At(r, "capture", "capture")
  /\ loc' = [loc EXCEPT ![r].result = outcome]
  /\ IF outcome = "ERROR"
       THEN Respond(r, 500, <<"providerError">>)
       ELSE IF CaptureBranch(variant, outcome, body[r].hasData) = "save"
         THEN Await(r, "save", <<outcome>>)
         ELSE IF CaptureBranch(variant, outcome, body[r].hasData) = "ok"
           THEN Respond(r, 200, <<outcome>>)
           ELSE Respond(r, 400, <<outcome>>)
  /\ UNCHANGED <<fixed, store, cache, kind, body, mails, calls>>

\* await booking.save() settles (server.js only); a rejection is caught: 500
CaptureSaved(r, ok) ==
  /\ At(r, "capture", "save")
  /\ IF ~ok
       THEN /\ Respond(r, 500, <<"saveFailed">>)
            /\ UNCHANGED <<bookings, mails, loc>>
       ELSE /\ bookings' = bookings \cup {CaptureBooking(r, body[r], body[r].orderID)}
            /\ CallSendEmails(r, CaptureBooking(r, body[r], body[r].orderID), <<"save">>)
  /\ UNCHANGED <<fixed, stored, blogs, cache, kind, body, calls>>

\* --------------------------------------------------- POST /api/admin/config
PostConfig(r, b) ==
  /\ Arrive(r, "config", b)
  /\ IF WrongPassword(b.password, env)
       THEN Respond(r, 403, <<"forbidden">>)
       ELSE Await(r, "deleteMany", <<>>)
  /\ UNCHANGED <<fixed, store, cache, loc, mails, calls>>

\* await AdminConfig.deleteMany({}) settles
ConfigDeleted(r, ok) ==
  /\ At(r, "config", "deleteMany")
  /\ IF ok
       THEN stored' = <<>> /\ Await(r, "save", <<"deleteMany">>)
       ELSE stored' = stored /\ Hang(r, <<"deleteFailed">>)
  /\ UNCHANGED <<fixed, bookings, blogs, cache, kind, body, loc, mails, calls>>

\* await config.save() settles; then adminConfig = config._doc;
\* updateTransporter(); res.json
ConfigSaved(r, ok) ==
  /\ At(r, "config", "save")
  /\ IF ~ok
       THEN /\ Hang(r, <<"saveFailed">>)
            /\ UNCHANGED <<stored, cache>>
       ELSE /\ stored' = Append(stored, [id |-> r, cfg |-> body[r].cfg])
            /\ adminConfig' = body[r].cfg
            /\ IF UpdateTransporterThrows(variant, body[r].cfg)
                 THEN Hang(r, <<"save", "cache", "throw">>) /\ UNCHANGED transporter
                 ELSE /\ Respond(r, 200, <<"save", "cache", "transport">>)
                      /\ transporter' = UpdateTransporter(variant, body[r].cfg, transporter)
  /\ UNCHANGED <<fixed, bookings, blogs, kind, body, loc, mails, calls>>

\* --------------------------------------------------- POST /api/payment/stripe
PostStripe(r, b) ==
  /\ Arrive(r, "stripe", b)
  /\ IF ~Truthy(adminConfig.stripeSecretKey)
       THEN Respond(r, 400, <<"unconfigured">>) /\ UNCHANGED <<calls, loc>>
       ELSE /\ Await(r, "intent", <<"call">>)
            /\ calls' = calls \cup {Call(r, "stripe", adminConfig.stripeSecretKey, "")}
            /\ loc' = [loc EXCEPT ![r].minor = MinorUnits(b.amount)]
  /\ UNCHANGED <<fixed, store, cache, mails>>

\* await stripe.paymentIntents.create(...) settles
StripeResult(r, ok) ==
  /\ At(r, "stripe", "intent")
  /\ Respond(r, IF ok THEN 200 ELSE 500, <<IF ok THEN "intent" ELSE "providerError">>)
  /\ UNCHANGED <<fixed, store, cache, kind, body, loc, mails, calls>>

\* --------------------------------------------------- POST /api/payment/paypal
PostPaypal(r, b) ==
  /\ Arrive(r, "paypal", b)
  /\ IF ~PaypalEnvironment(adminConfig, env).ok
       THEN Respond(r, 400, <<"unconfigured">>) /\ UNCHANGED calls
       ELSE IF ToFixedThrows(b.amount)
         THEN Hang(r, <<"throw">>) /\ UNCHANGED calls
         ELSE /\ Await(r, "order", <<"call">>)
              /\ calls' = calls \cup {PaypalCall(r)}
  /\ UNCHANGED <<fixed, store, cache, loc, mails>>

\* await client.execute(request) settles
PaypalResult(r, ok) ==
  /\ At(r, "paypal", "order")
  /\ Respond(r, IF ok THEN 200 ELSE 500, <<IF ok THEN "order" ELSE "providerError">>)
  /\ UNCHANGED <<fixed, store, cache, kind, body, loc, mails, calls>>

\* ------------------------------------- DELETE /api/bookings/:id, blogs API
DeleteBooking(r, b) ==
  /\ Arrive(r, "deleteBooking", b)
  /\ IF WrongPassword(b.password, env)
       THEN Respond(r, 403, <<"forbidden">>)
       ELSE Await(r, "delete", <<>>)
  /\ UNCHANGED <<fixed, store, cache, loc, mails, calls>>

\* await Booking.findByIdAndDelete(req.params.id) settles
BookingDeleted(r, ok) ==
  /\ At(r, "deleteBooking", "delete")
  /\ IF ok
       THEN /\ bookings' = {x \in bookings : x.id # body[r].id}
            /\ Respond(r, 200, <<"delete">>)
       ELSE /\ bookings' = bookings
            /\ Hang(r, <<"deleteFailed">>)
  /\ UNCHANGED <<fixed, stored, blogs, cache, kind, body, loc, mails, calls>>

PostBlog(r, b) ==
  /\ Arrive(r, "blog", b)
  /\ IF WrongPassword(b.password, env)
       THEN Respond(r, 403, <<"forbidden">>)
       ELSE Await(r, "save", <<>>)
  /\ UNCHANGED <<fixed, store, cache, loc, mails, calls>>

\* await blog.save() settles
BlogSaved(r, ok) ==
  /\ At(r, "blog", "save")
  /\ IF ok
       THEN blogs' = blogs \cup {r} /\ Respond(r, 200, <<"save">>)
       ELSE blogs' = blogs /\ Hang(r, <<"saveFailed">>)
  /\ UNCHANGED <<fixed, stored, bookings, cache, kind, body, loc, mails, calls>>

DeleteBlog(r, b) ==
  /\ Arrive(r, "deleteBlog", b)
  /\ IF WrongPassword(b.password, env)
       THEN Respond(r, 403, <<"forbidden">>)
       ELSE Await(r, "delete", <<>>)
  /\ UNCHANGED <<fixed, store, cache, loc, mails, calls>>

\* await Blog.findByIdAndDelete(req.params.id) settles
BlogDeleted(r, ok) ==
  /\ At(r, "deleteBlog", "delete")
  /\ IF ok
       THEN blogs' = blogs \ {body[r].id} /\ Respond(r, 200, <<"delete">>)
       ELSE blogs' = blogs /\ Hang(r, <<"deleteFailed">>)
  /\ UNCHANGED <<fixed, stored, bookings, cache, kind, body, loc, mails, calls>>

\* ------------------------------------------------------------------ inputs
Variants == {"server", "part_000"}

MailConfig(u, p, a) == [EmptyConfig EXCEPT !.gmailUser = u, !.gmailAppPass = p, !.adminEmail = a]
PayConfig(k, i, s) == [EmptyConfig EXCEPT !.stripeSecretKey = k, !.paypalClientId = i, !.paypalSecret = s]

Doc(cfg) == [id |-> 0, cfg |-> cfg]

EnvWith(pw, i, s) == [ADMIN_PASSWORD |-> pw, PAYPAL_CLIENT_ID |-> i, PAYPAL_SECRET |-> s]

BookingBody(m, st) == [NoBody EXCEPT !.paymentMethod = m, !.status = st]
CaptureBody(o, d, m, st) ==
  [NoBody EXCEPT !.orderID = o, !.hasData = d, !.paymentMethod = m, !.status = st]
ConfigBody(pw, cfg) == [NoBody EXCEPT !.password = pw, !.cfg = cfg]
IdBody(pw, id) == [NoBody EXCEPT !.password = pw, !.id = id]
AmountBody(a) == [NoBody EXCEPT !.amount = a]

InitRequests ==
  /\ phase = "connecting"
  /\ adminConfig = EmptyConfig
  /\ transporter = NullTransport
  /\ bookings = {}
  /\ blogs = {}
  /\ kind = [r \in Req |-> "idle"]
  /\ pc = [r \in Req |-> "idle"]
  /\ body = [r \in Req |-> NoBody]
  /\ loc = [r \in Req |-> NoLoc]
  /\ res = [r \in Req |-> 0]
  /\ log = [r \in Req |-> <<>>]
  /\ mails = {}
  /\ calls = {}

\* ------------------------------------------- booking and capture (Spec)
BookingBodies ==
  {BookingBody(Absent, Absent), BookingBody("card", Absent),
   BookingBody("paypal", Absent), BookingBody("paypal", "Paid")}

CaptureBodies ==
  {CaptureBody(Absent, FALSE, Absent, Absent), CaptureBody("o1", FALSE, Absent, Absent),
   CaptureBody("o1", TRUE, Absent, Absent),
   [CaptureBody("o1", TRUE, "paypal", "Pending") EXCEPT !.paymentId = "pi1"]}

CaptureOutcomes == {"COMPLETED", "DECLINED", "ERROR"}

Init ==
  /\ variant \in Variants
  /\ env = EnvWith("pw", "envid", "envsecret")
  /\ stored \in {<<>>, <<Doc(MailConfig("u1", "p1", "a1"))>>}
  /\ InitRequests

Next ==
  \/ StartupLoad
  \/ \E r \in Req :
       \/ \E b \in BookingBodies : PostBooking(r, b)
       \/ \E ok \in BOOLEAN : BookingSaved(r, ok)
       \/ \E b \in CaptureBodies : PostCapture(r, b)
       \/ \E o \in CaptureOutcomes : CaptureResult(r, o)
       \/ \E ok \in BOOLEAN : CaptureSaved(r, ok)
       \/ \E ok \in BOOLEAN : CustomerMailDone(r, ok)
       \/ \E ok \in BOOLEAN : AdminMailDone(r, ok)
       \/ \E id \in Req : DeleteBooking(r, IdBody("pw", id))
       \/ \E ok \in BOOLEAN : BookingDeleted(r, ok)

Spec == Init /\ [][Next]_vars

\* --------------------------------- configuration replace and mail (SpecConfig)
MailConfigs ==
  {EmptyConfig, MailConfig("u2", "", "a1"), MailConfig("u2", "p2", "a1"),
   MailConfig("u2", "p2", "")}

SubmitBodies == {BookingBody(m, Absent) : m \in {Absent, "card", "paypal"}}

InitConfig ==
  /\ variant \in Variants
  /\ env = EnvWith("pw", "", "")
  /\ stored \in {<<>>, <<Doc(MailConfig("u1", "p1", "a1"))>>}
  /\ InitRequests

NextConfig ==
  \/ StartupLoad
  \/ \E r \in Req :
       \/ \E b \in SubmitBodies : PostBooking(r, b)
       \/ \E ok \in BOOLEAN : BookingSaved(r, ok)
       \/ \E ok \in BOOLEAN : CustomerMailDone(r, ok)
       \/ \E ok \in BOOLEAN : AdminMailDone(r, ok)
       \/ \E cfg \in MailConfigs : PostConfig(r, ConfigBody("pw", cfg))
       \/ \E ok \in BOOLEAN : ConfigDeleted(r, ok)
       \/ \E ok \in BOOLEAN : ConfigSaved(r, ok)

SpecConfig == InitConfig /\ [][NextConfig]_vars

\* ------------------------------------------------ payment endpoints (SpecPay)
PayConfigs == {PayConfig(k, i, "") : k \in {"", "sk2"}, i \in {"", "id2"}}

PayEnvs ==
  {EnvWith("pw", "", ""), EnvWith("pw", "envid", "envsecret"), EnvWith("pw", "envid", "")}

Amounts == {Amount(12500), Amount(19996), Amount(0 - 5000), NoAmount}
OrderAmounts == {Amount(12500), NoAmount}

PayCaptureBodies == {CaptureBody(o, FALSE, Absent, Absent) : o \in {Absent, "o1"}}

\* the payment handlers are the same in both iterations
InitPay ==
  /\ variant = "server"
  /\ env \in PayEnvs
  /\ stored \in {<<>>, <<Doc(EmptyConfig)>>, <<Doc(PayConfig("sk1", "id1", "secret1"))>>}
  /\ InitRequests

NextPay ==
  \/ StartupLoad
  \/ \E r \in Req :
       \/ \E cfg \in PayConfigs : PostConfig(r, ConfigBody("pw", cfg))
       \/ \E ok \in BOOLEAN : ConfigDeleted(r, ok)
       \/ \E ok \in BOOLEAN : ConfigSaved(r, ok)
       \/ \E a \in Amounts : PostStripe(r, AmountBody(a))
       \/ \E ok \in BOOLEAN : StripeResult(r, ok)
       \/ \E a \in OrderAmounts : PostPaypal(r, AmountBody(a))
       \/ \E ok \in BOOLEAN : PaypalResult(r, ok)
       \/ \E b \in PayCaptureBodies : PostCapture(r, b)
       \/ \E o \in CaptureOutcomes : CaptureResult(r, o)

SpecPay == InitPay /\ [][NextPay]_vars

\* ------------------------------------------- the shared secret (SpecAuth)
Passwords == {Absent, "pw", "bad"}
GuardedKinds == {"deleteBooking", "deleteBlog", "blog", "config"}

InitAuth ==
  /\ variant \in Variants
  /\ env \in {EnvWith("pw", "", ""), EnvWith(Absent, "", "")}
  /\ stored = <<Doc(MailConfig("u1", "", "a1"))>>
  /\ InitRequests

NextAuth ==
  \/ StartupLoad
  \/ \E r \in Req :
       \/ PostBooking(r, BookingBody("paypal", Absent))
       \/ \E ok \in BOOLEAN : BookingSaved(r, ok)
       \/ \E pw \in Passwords, id \in Req : DeleteBooking(r, IdBody(pw, id))
       \/ \E ok \in BOOLEAN : BookingDeleted(r, ok)
       \/ \E pw \in Passwords : PostBlog(r, IdBody(pw, 0))
       \/ \E ok \in BOOLEAN : BlogSaved(r, ok)
       \/ \E pw \in Passwords, id \in Req : DeleteBlog(r, IdBody(pw, id))
       \/ \E ok \in BOOLEAN : BlogDeleted(r, ok)
       \/ \E pw \in Passwords : PostConfig(r, ConfigBody(pw, MailConfig("u2", "p2", "a1")))
       \/ \E ok \in BOOLEAN : ConfigDeleted(r, ok)
       \/ \E ok \in BOOLEAN : ConfigSaved(r, ok)

SpecAuth == InitAuth /\ [][NextAuth]_vars


\* ------------------------------------------------------------ vocabulary
Range(q) == {q[i] : i \in 1..Len(q)}
Did(r, e) == e \in Range(log[r])
Count(q, e) == Cardinality({i \in 1..Len(q) : q[i] = e})
Ended(r) == pc[r] \in {"done", "hung"}
MailsOf(r) == {m \in mails : m.req = r}
CallsOf(r) == {c \in calls : c.req = r}
StoredBy(r) == {b \in bookings : b.id = r}
\* an authorized DELETE /api/bookings/:id removed the booking saved by r
Deleted(id) == \E q \in Req : kind[q] = "deleteBooking" /\ body[q].id = id /\ Did(q, "delete")
CompletedCapture(r) == kind[r] = "capture" /\ loc[r].result = "COMPLETED"

C2_OncePerOrder ==
  \A o \in {"o1"} :
    /\ Cardinality({b \in bookings : kind[b.id] = "capture" /\ b.paymentId = o}) <= 1
    /\ Cardinality({r \in Req : kind[r] = "capture" /\ body[r].orderID = o
                                  /\ Did(r, "sendEmails")}) <= 1

\* C4 (as stated): sendEmails never throws to its caller, for any booking
\* (a booking without paymentMethod included) and any send outcome.
C4_SendEmailsNeverThrows ==
  \A r \in Req : kind[r] \in {"booking", "capture"} => ~Did(r, "throw")

\* C10: a capture the provider reports as anything but COMPLETED answers 400,
\* a capture whose provider call fails answers 500, and in both cases the
\* request stores no booking and attempts no mail.
C10_FailedCaptureLeavesNothing ==
  \A r \in Req :
    kind[r] = "capture" /\ loc[r].result \notin {"", "COMPLETED"} =>
      /\ pc[r] = "done"
      /\ res[r] = IF loc[r].result = "ERROR" THEN 500 ELSE 400
      /\ StoredBy(r) = {}
      /\ MailsOf(r) = {}
      /\ ~Did(r, "sendEmails")

\* C10 witness: one capture with bookingData was DECLINED and answered 400,
\* another failed at the provider and answered 500.
C10_Witness ==
  /\ \E r \in Req : kind[r] = "capture" /\ body[r].hasData
                    /\ loc[r].result = "DECLINED" /\ res[r] = 400
  /\ \E r \in Req : kind[r] = "capture" /\ body[r].hasData
                    /\ loc[r].result = "ERROR" /\ res[r] = 500

\* a POST /api/bookings with a non-redirect method whose save went through
\* and whose handler has run to its end
SettledSubmission(r) ==
  kind[r] = "booking" /\ body[r].paymentMethod # "paypal" /\ Did(r, "save") /\ Ended(r)

C5_MailOnlyWithCurrentCredentials ==
  \A m \in mails :
    /\ Truthy(m.cfg.gmailUser) /\ Truthy(m.cfg.gmailAppPass) /\ Truthy(m.cfg.adminEmail)
    /\ m.transport = CreateTransport(m.cfg)

NoReplaceInFlight == \A r \in Req : kind[r] = "config" => Ended(r)

\* C8 (as stated): whenever no configuration replace is in flight the store
\* holds at most one AdminConfig record.
C8_AtMostOneConfigRecord == NoReplaceInFlight => Len(stored) <= 1

\* C9 (as stated): whenever no replace is in flight the cache equals what a
\* restart would load from the store, and the transport is the one derived
\* from that configuration.
C9_CacheEqualsPersisted ==
  phase = "listening" /\ NoReplaceInFlight =>
    /\ adminConfig = FindOne(stored)
    /\ transporter = IF HasMailCreds(adminConfig)
                       THEN CreateTransport(adminConfig) ELSE NullTransport

PaymentKinds == {"stripe", "paypal", "capture"}

Forbidden(r) == kind[r] \in GuardedKinds /\ body[r].password # env.ADMIN_PASSWORD

\* C7: a booking delete, blog delete, blog creation or configuration replace
\* whose password differs from ADMIN_PASSWORD is answered 403 in the step it
\* arrives in, which leaves the three collections, the config cache and the
\* mail transport unchanged, and the request does nothing afterwards.
C7_ForbiddenChangesNothing ==
  /\ [](\A r \in Req :
          Forbidden(r) => res[r] = 403 /\ pc[r] = "done" /\ log[r] = <<"forbidden", "respond">>)
  /\ [][\A r \in Req :
          kind[r] = "idle" /\ Forbidden(r)' =>
            /\ res'[r] = 403
            /\ stored' = stored /\ bookings' = bookings /\ blogs' = blogs
            /\ adminConfig' = adminConfig /\ transporter' = transporter]_vars

\* C7 witness: with ADMIN_PASSWORD set, a delete of an existing booking with
\* a wrong password was answered 403.
C7_Witness ==
  /\ \E r \in Req : /\ kind[r] = "deleteBooking" /\ res[r] = 403
                    /\ body[r].password = "bad" /\ StoredBy(body[r].id) # {}
  /\ env.ADMIN_PASSWORD = "pw"

\* C11 (as stated): every stored booking with status Paid has a provider
\* payment reference.
C11_PaidHasPaymentId ==
  \A b \in bookings : b.status = "Paid" => Truthy(b.paymentId)

\* C12 (as stated): sendEmails is invoked exactly once for every stored
\* booking that is Paid or was submitted with a non-redirect method, and
\* never for any other stored booking.
C12_OneDispatchPerSettledBooking ==
  \A b \in bookings :
    Ended(b.id) =>
      Count(log[b.id], "sendEmails") =
        IF b.status = "Paid" \/ (kind[b.id] = "booking" /\ b.paymentMethod # "paypal")
          THEN 1 ELSE 0

\* C13 (as stated): when a 'paypal' booking already stored as Pending by
\* POST /api/bookings is captured as COMPLETED with the same booking data
\* (the fields carried here: paymentMethod 'paypal', status Pending), one
\* record exists for it afterwards, and that record is Paid.
C13_NoPendingDuplicate ==
  \A q, r \in Req :
    /\ kind[q] = "booking" /\ body[q].paymentMethod = "paypal"
    /\ \E b \in StoredBy(q) : b.status = "Pending"
    /\ CompletedCapture(r) /\ res[r] = 200
    /\ body[r].hasData /\ body[r].paymentMethod = "paypal" /\ body[r].status = "Pending"
    => /\ Cardinality(StoredBy(q) \cup StoredBy(r)) = 1
       /\ \A b \in StoredBy(q) \cup StoredBy(r) : b.status = "Paid"

\* the place of the first e in q (0: none)
Pos(q, e) == IF e \in Range(q) THEN CHOOSE i \in 1..Len(q) : q[i] = e /\ \A j \in 1..(i - 1) : q[j] # e ELSE 0
\* the place where a send's outcome is known (0: not yet)
Settled(q, sent, failed) == IF Pos(q, sent) > 0 THEN Pos(q, sent) ELSE Pos(q, failed)

\* C14: in a request that dispatches notifications the booking is saved
\* before any email is attempted, the customer email is attempted and
\* finished before the operator email is attempted, and the response is sent
\* only after both attempts have finished.
C14_SaveThenCustomerThenOperatorThenResponse ==
  \A r \in Req :
    LET q == log[r]
        save == Pos(q, "save")
        cust == Pos(q, "customer")
        custEnd == Settled(q, "customerSent", "customerFailed")
        adm == Pos(q, "admin")
        admEnd == Settled(q, "adminSent", "adminFailed")
        resp == Pos(q, "respond")
    IN /\ MailsOf(r) # {} => save > 0 /\ cust > 0
       /\ cust > 0 => 0 < save /\ save < cust
       /\ custEnd > 0 => cust > 0 /\ cust < custEnd
       /\ adm > 0 => custEnd > 0 /\ custEnd < adm
       /\ admEnd > 0 => adm > 0 /\ adm < admEnd
       /\ (resp > 0 /\ cust > 0) => admEnd > 0 /\ admEnd < resp

\* C14 witness: a booking submission and a capture have both answered after
\* a full dispatch, one of them with a failed customer send.
C14_Witness ==
  \E r, c \in Req :
    /\ kind[r] = "booking" /\ kind[c] = "capture"
    /\ res[r] = 200 /\ res[c] = 200
    /\ Did(r, "customerFailed") /\ Did(r, "adminSent")
    /\ Did(c, "customerSent") /\ Did(c, "adminFailed")

\* C16: a stored booking keeps its status for as long as it is stored (so it
\* never moves backward, nor between Paid and Failed), and no two stored
\* bookings share an id.
C16_StatusNeverChanges ==
  [][/\ \A b \in bookings : \A c \in bookings' : c.id = b.id => c.status = b.status
     /\ \A b, c \in bookings' : b.id = c.id => b = c]_vars

\* C16 witness: a Paid and a Pending booking are stored, both written by
\* requests that have ended.
C16_Witness ==
  \E b, c \in bookings :
    /\ b.status = "Paid" /\ c.status = "Pending"
    /\ Ended(b.id) /\ Ended(c.id)

\* C18 (as stated): no request is left with its handler finished and no
\* response sent.
C18_EveryRequestAnswered ==
  \A r \in Req : pc[r] # "hung"

\* C19 (as stated): a capture request that ended with an error response
\* (400 or 500) saved no booking.
C19_ErrorResponseMeansNothingSaved ==
  \A r \in Req :
    kind[r] = "capture" /\ res[r] \in {400, 500} => ~Did(r, "save") /\ StoredBy(r) = {}

\* C15 (as stated): startup never ends the process; once the server listens
\* and before any request, the cache is the stored singleton (the all-empty
\* default when none is stored).
C15_StartupReachesListening ==
  /\ phase # "exited"
  /\ (phase = "listening" /\ \A r \in Req : kind[r] = "idle") => adminConfig = FindOne(stored)

\* C17 (as stated): the processor is only ever asked to create an intent
\* with an integer, non-negative minor-unit amount (negative or non-finite
\* input is rejected or clamped before the call).
C17_IntentAmountIsNonNegativeInteger ==
  \A r \in Req :
    kind[r] = "stripe" /\ Did(r, "call") =>
      loc[r].minor.finite /\ loc[r].minor.value >= 0

\* C20 (as stated): every email of a dispatch is sent through the transport
\* that was current when the dispatch began.
C20_OneTransportPerDispatch ==
  \A m \in mails : m.transport = loc[m.req].seenTransport

\* C21: a booking stored by a capture has status Paid and paymentId equal to
\* the request's orderID, whatever status and paymentId its bookingData
\* carried; its other fields (here paymentMethod) are those of bookingData.
C21_CaptureOverridesStatusAndPaymentId ==
  \A b \in bookings :
    kind[b.id] = "capture" =>
      /\ b.status = "Paid"
      /\ b.paymentId = body[b.id].orderID
      /\ b.paymentMethod = body[b.id].paymentMethod

\* C21 witness: a capture whose bookingData carried status Pending and a
\* paymentId of its own stored its booking and answered 200.
C21_Witness ==
  \E b \in bookings :
    /\ kind[b.id] = "capture" /\ res[b.id] = 200
    /\ body[b.id].status = "Pending"
    /\ Truthy(body[b.id].paymentId) /\ body[b.id].paymentId # body[b.id].orderID
    /\ b.paymentMethod = "paypal"

====
